---------------------------- MODULE Spec2Model ----------------------------
(***************************************************************************)
(* A model of memory-capture-franklin.py: the capture pipeline that fetches *)
(* recent messages, filters them by keyword, classifies them, and appends  *)
(* deduplicated entries to stream.log.                                     *)
(*                                                                         *)
(* Text is a sequence of one-character strings, so that substring search,  *)
(* lower-casing, stripping, length and the rendering of the log file are    *)
(* computed character by character, as the Python does.                    *)
(***************************************************************************)
EXTENDS Integers, Sequences, FiniteSets, TLC

(***************************************************************************)
(* Characters and strings                                                  *)
(***************************************************************************)

\* ASCII 32..126, in order: Printable[i] has code 31 + i (the backtick, which
\* the lexer rejects inside a string, is written out by name).
Printable ==
    <<" ", "!", "\"", "#", "$", "%", "&", "'", "(", ")", "*", "+", ",", "-",
    ".", "/", "0", "1", "2", "3", "4", "5", "6", "7", "8", "9", ":", ";", "<",
    "=", ">", "?", "@", "A", "B", "C", "D", "E", "F", "G", "H", "I", "J", "K",
    "L", "M", "N", "O", "P", "Q", "R", "S", "T", "U", "V", "W", "X", "Y", "Z",
    "[", "\\", "]", "^", "_", "BACKTICK", "a", "b", "c", "d", "e", "f", "g", "h", "i",
    "j", "k", "l", "m", "n", "o", "p", "q", "r", "s", "t", "u", "v", "w", "x",
    "y", "z", "{", "|", "}", "~">>

\* A lone surrogate (what json.loads makes of "\ud800"): a character of a Python
\* string that str.encode() cannot encode.
Surrogate == "SURROGATE"

Chars == {Printable[i] : i \in 1..Len(Printable)} \cup {"\n", Surrogate}

\* The code point of a character: ord(c).
Ord == [c \in Chars |->
          IF c = "\n" THEN 10
          ELSE IF c = Surrogate THEN 55296
          ELSE 31 + (CHOOSE i \in 1..Len(Printable) : Printable[i] = c)]

\* str.lower() on one character: "A".."Z" (codes 65..90) map to "a".."z".
LowerChar == [c \in Chars |->
                IF Ord[c] >= 65 /\ Ord[c] <= 90 THEN Printable[Ord[c] + 32 - 31]
                ELSE c]

\* text.lower()
lower(text) == [i \in 1..Len(text) |-> LowerChar[text[i]]]

\* Python's `kw in text` on strings: kw occurs in text as a contiguous run.
In(kw, text) ==
    \E i \in 0..(Len(text) - Len(kw)) :
        \A k \in 1..Len(kw) : text[i + k] = kw[k]

\* Concatenation of a sequence of strings.
RECURSIVE Concat(_)
Concat(parts) ==
    IF parts = <<>> THEN <<>> ELSE Head(parts) \o Concat(Tail(parts))

\* n copies of the character c.
Rep(c, n) == [i \in 1..n |-> c]

IsSpace(c) == c \in {" ", "\n"}

\* str.strip(): leading and trailing whitespace removed.
strip(s) ==
    IF \A i \in 1..Len(s) : IsSpace(s[i]) THEN <<>>
    ELSE LET first == CHOOSE i \in 1..Len(s) :
                          /\ ~IsSpace(s[i])
                          /\ \A j \in 1..(i - 1) : IsSpace(s[j])
             last  == CHOOSE i \in 1..Len(s) :
                          /\ ~IsSpace(s[i])
                          /\ \A j \in (i + 1)..Len(s) : IsSpace(s[j])
         IN  SubSeq(s, first, last)

\* " ".join(texts)
RECURSIVE join(_)
join(texts) ==
    IF texts = <<>> THEN <<>>
    ELSE IF Len(texts) = 1 THEN texts[1]
    ELSE texts[1] \o <<" ">> \o join(Tail(texts))

(***************************************************************************)
(* is_important and get_category                                           *)
(***************************************************************************)

\* The keyword list of is_important.
keywords == <<
    <<"d","e","c","i","d","e","d">>, <<"d","e","c","i","s","i","o","n">>,
    <<"d","e","t","e","r","m","i","n","e","d">>, <<"c","h","o","o","s","e">>,
    <<"s","e","l","e","c","t","e","d">>, <<"c","o","m","m","i","t","t","e","d">>,
    <<"d","i","s","c","o","v","e","r","e","d">>, <<"f","o","u","n","d">>,
    <<"r","e","a","l","i","z","e","d">>, <<"l","e","a","r","n","e","d">>,
    <<"i","n","s","i","g","h","t">>, <<"i","d","e","n","t","i","f","i","e","d">>,
    <<"i","m","p","l","e","m","e","n","t","e","d">>, <<"b","u","i","l","t">>,
    <<"c","r","e","a","t","e","d">>, <<"f","i","x","e","d">>,
    <<"s","o","l","v","e","d">>, <<"c","o","m","p","l","e","t","e","d">>,
    <<"i","s","s","u","e">>, <<"p","r","o","b","l","e","m">>, <<"b","u","g">>,
    <<"e","r","r","o","r">>, <<"b","l","o","c","k","e","r">>,
    <<"b","l","o","c","k","e","d">>,
    <<"s","u","c","c","e","s","s">>, <<"s","u","c","c","e","e","d","e","d">>,
    <<"w","o","r","k","i","n","g">>, <<"r","e","s","o","l","v","e","d">>,
    <<"a","c","h","i","e","v","e","d">> >>

\* any(kw in text for kw in kws)
AnyIn(kws, text) == \E i \in 1..Len(kws) : In(kws[i], text)

\* Mutant: the length test admits a text of exactly 40 characters.
is_important_ge40(text) ==
    LET text_lower == lower(text)
    IN  AnyIn(keywords, text_lower) /\ Len(text) >= 40

is_important(text) ==
    LET text_lower == lower(text)
    IN  AnyIn(keywords, text_lower) /\ Len(text) > 40

\* The keyword groups of get_category, in the order the code tests them.
decision_kws == <<
    <<"d","e","c","i","d","e","d">>, <<"d","e","c","i","s","i","o","n">>,
    <<"d","e","t","e","r","m","i","n","e","d">> >>

discovery_kws == <<
    <<"d","i","s","c","o","v","e","r","e","d">>, <<"f","o","u","n","d">>,
    <<"r","e","a","l","i","z","e","d">>, <<"i","n","s","i","g","h","t">> >>

implementation_kws == <<
    <<"i","m","p","l","e","m","e","n","t","e","d">>, <<"b","u","i","l","t">>,
    <<"c","r","e","a","t","e","d">>, <<"f","i","x","e","d">> >>

issue_kws == <<
    <<"i","s","s","u","e">>, <<"p","r","o","b","l","e","m">>, <<"b","u","g">>,
    <<"e","r","r","o","r">>, <<"b","l","o","c","k","e","r">> >>

success_kws == <<
    <<"s","u","c","c","e","s","s">>, <<"s","u","c","c","e","e","d","e","d">>,
    <<"r","e","s","o","l","v","e","d">>, <<"c","o","m","p","l","e","t","e","d">> >>

Categories ==
    {"decision", "discovery", "implementation", "issue", "success", "outcome"}

\* Mutant: the implementation group is tested before the decision group.
get_category_swapped(text) ==
    LET text_lower == lower(text)
    IN  IF AnyIn(implementation_kws, text_lower) THEN "implementation"
        ELSE IF AnyIn(decision_kws, text_lower) THEN "decision"
        ELSE IF AnyIn(discovery_kws, text_lower) THEN "discovery"
        ELSE IF AnyIn(issue_kws, text_lower) THEN "issue"
        ELSE IF AnyIn(success_kws, text_lower) THEN "success"
        ELSE "outcome"

get_category(text) ==
    LET text_lower == lower(text)
    IN  IF AnyIn(decision_kws, text_lower) THEN "decision"
        ELSE IF AnyIn(discovery_kws, text_lower) THEN "discovery"
        ELSE IF AnyIn(implementation_kws, text_lower) THEN "implementation"
        ELSE IF AnyIn(issue_kws, text_lower) THEN "issue"
        ELSE IF AnyIn(success_kws, text_lower) THEN "success"
        ELSE "outcome"

(***************************************************************************)
(* get_hash                                                                *)
(*                                                                         *)
(* hashlib.md5(text.encode()).hexdigest()[:16] is a deterministic function *)
(* of the characters of the text into the 16-digit hexadecimal strings.    *)
(* It is not injective (there are more texts than digests), and the model  *)
(* keeps that: the digest is a polynomial checksum of the code points in a *)
(* space small enough for two of the modelled texts to collide.            *)
(***************************************************************************)

HashLen == 16

DigestSpace == 2^16

RECURSIVE Digest(_, _)
Digest(acc, text) ==
    IF text = <<>> THEN acc
    ELSE Digest((acc * 31 + Ord[Head(text)]) % DigestSpace, Tail(text))

HexDigits ==
    <<"0","1","2","3","4","5","6","7","8","9","a","b","c","d","e","f">>

\* hexdigest()[:HashLen] of a digest value: fixed width, zero padded.
hexdigest(n) ==
    [i \in 1..HashLen |->
        IF HashLen - i >= 4 THEN "0"
        ELSE HexDigits[((n \div (16 ^ (HashLen - i))) % 16) + 1]]

get_hash(text) == hexdigest(Digest(0, text))

(***************************************************************************)
(* The stream log: what append_to_stream writes and already_captured reads *)
(***************************************************************************)

\* datetime.now().strftime('%Y-%m-%d %H:%M:%S UTC') at clock reading ts.
strftime(ts) ==
    <<"2","0","2","6","-","0","1","-","0","1"," ","0","0",":","0","0",":","0">>
        \o <<HexDigits[(ts % 10) + 1]>> \o <<" ","U","T","C">>

CategoryText ==
    [c \in Categories |->
        CASE c = "decision" -> <<"d","e","c","i","s","i","o","n">>
          [] c = "discovery" -> <<"d","i","s","c","o","v","e","r","y">>
          [] c = "implementation" ->
                <<"i","m","p","l","e","m","e","n","t","a","t","i","o","n">>
          [] c = "issue" -> <<"i","s","s","u","e">>
          [] c = "success" -> <<"s","u","c","c","e","s","s">>
          [] c = "outcome" -> <<"o","u","t","c","o","m","e">>]

\* Mutant: the digest line is written without its "hash:" prefix.
Block_noprefix(e) ==
    <<"\n","-","-","-","\n">>
        \o <<"[">> \o strftime(e.timestamp) \o <<"]"," ","[">>
        \o CategoryText[e.category] \o <<"]","\n">>
        \o e.text \o <<"\n">>
        \o e.hash \o <<"\n">>

\* The four f.write calls of append_to_stream, as the text they add.
Block(e) ==
    <<"\n","-","-","-","\n">>
        \o <<"[">> \o strftime(e.timestamp) \o <<"]"," ","[">>
        \o CategoryText[e.category] \o <<"]","\n">>
        \o e.text \o <<"\n">>
        \o <<"h","a","s","h",":">> \o e.hash \o <<"\n">>

\* f.read() of the stream file holding the entries of log.
RECURSIVE FileText(_)
FileText(log) ==
    IF log = <<>> THEN <<>> ELSE Block(Head(log)) \o FileText(Tail(log))

\* Mutant: the marker searched for has a space after the colon.
Marker_spaced(hash_val) == <<"h","a","s","h",":"," ">> \o hash_val

\* f"hash:{hash_val}"
Marker(hash_val) == <<"h","a","s","h",":">> \o hash_val

(***************************************************************************)
(* Messages and extract_text_content                                       *)
(*                                                                         *)
(* A JSON value is a record that names its shape, so that values of        *)
(* different shapes can be told apart.  An exception is a status "raise".  *)
(***************************************************************************)

NoText == <<>>

\* Items of a content list.
TextBlock(t)   == [kind |-> "text", text |-> t]       \* {"type":"text","text":t}
TextBlockNoText == [kind |-> "text_missing", text |-> NoText] \* {"type":"text"}
TextBlockNonStr == [kind |-> "text_nonstr", text |-> NoText]  \* "text": 5
OtherBlock     == [kind |-> "other", text |-> NoText]  \* {"type":"image",...}
NonDictItem    == [kind |-> "nondict", text |-> NoText] \* a bare string or number

\* Messages.
StrMsg(t)      == [shape |-> "dict", content |-> "str", str |-> t, items |-> <<>>]
ListMsg(items) == [shape |-> "dict", content |-> "list", str |-> NoText,
                   items |-> items]
OtherMsg       == [shape |-> "dict", content |-> "other", str |-> NoText,
                   items |-> <<>>]                   \* "content": 5
NoContentMsg   == [shape |-> "dict", content |-> "missing", str |-> NoText,
                   items |-> <<>>]
NonDictMsg     == [shape |-> "nondict", content |-> "missing", str |-> NoText,
                   items |-> <<>>]                   \* a message that is no object

Ok(t)  == [status |-> "ok", text |-> t]
Raised == [status |-> "raise", text |-> NoText]

\* The texts list built by the loop of extract_text_content: the text of every
\* dict item of type "text" (default ""), in order; other items are skipped.
RECURSIVE texts(_)
texts(items) ==
    IF items = <<>> THEN <<>>
    ELSE LET item == Head(items)
         IN  IF item.kind \in {"text", "text_missing", "text_nonstr"}
             THEN <<item.text>> \o texts(Tail(items))
             ELSE texts(Tail(items))

extract_text_content(msg) ==
    IF msg.shape # "dict" THEN Raised                  \* msg.get: AttributeError
    ELSE IF msg.content \in {"list", "missing"} THEN
        IF \E i \in 1..Len(msg.items) : msg.items[i].kind = "text_nonstr"
        THEN Raised                                    \* " ".join: TypeError
        ELSE Ok(strip(join(texts(msg.items))))
    ELSE IF msg.content = "str" THEN Ok(strip(msg.str))
    ELSE Ok(NoText)

(***************************************************************************)
(* run_openclaw and get_recent_messages                                    *)
(***************************************************************************)

\* stdout "": nothing that parses.
NoOutput == [parse |-> "error", field |-> "missing", items |-> <<>>]

\* Mutant: a run that exits non-zero counts as a success.
run_openclaw_anyexit(proc) ==
    IF proc.outcome \in {"timeout", "spawn_error"}
    THEN [success |-> FALSE, stdout |-> NoOutput]
    ELSE [success |-> TRUE, stdout |-> proc.stdout]

\* run_openclaw: (success, stdout) of one run of the CLI, which exits 0 or
\* not, times out, or cannot be spawned; stdout is "" when subprocess.run
\* raised.
run_openclaw(proc) ==
    IF proc.outcome \in {"timeout", "spawn_error"}
    THEN [success |-> FALSE, stdout |-> NoOutput]
    ELSE [success |-> proc.outcome = "exit0", stdout |-> proc.stdout]

\* A value returned to main: a list of messages, or what else the JSON held.
ListValue(items) == [kind |-> "list", items |-> items]
Empty == ListValue(<<>>)
NonList(kind) == [kind |-> kind, items |-> <<>>]

s_main == <<"m","a","i","n">>
s_agent_main_main ==
    <<"a","g","e","n","t",":","m","a","i","n",":","m","a","i","n">>

\* The test of line 52 on one session; "raise" when s.get or `in` raises.
SessionMatch(s) ==
    IF s.kind = "nondict" THEN "raise"                 \* s.get: AttributeError
    ELSE IF s.kind = "nullkey" THEN "raise"            \* "main" in None: TypeError
    ELSE IF s.kind = "nokey" THEN "no"                 \* "main" in ""
    ELSE IF s.key = s_agent_main_main \/ In(s_main, s.key) THEN "yes"
    ELSE "no"

\* The loop of lines 51-54: "found", "none", or "raise".
RECURSIVE FindMain(_)
FindMain(sessions) ==
    IF sessions = <<>> THEN "none"
    ELSE LET m == SessionMatch(Head(sessions))
         IN  IF m = "raise" THEN "raise"
             ELSE IF m = "yes" THEN "found"
             ELSE FindMain(Tail(sessions))

\* Lines 72-73 on the history output.
ParseHistory(out) ==
    IF out.parse # "object" THEN Empty         \* json.loads / data.get raised
    ELSE IF out.field = "missing" THEN Empty    \* data.get("messages", [])
    ELSE IF out.field = "list" THEN ListValue(out.items)
    ELSE NonList(out.field)                     \* returned as it is

\* Mutant: the parsing of the history output is outside the try block.
get_recent_messages_notry(ls, hist) ==
    LET r1 == run_openclaw(ls)
        r2 == run_openclaw(hist)
    IN  IF ~r1.success THEN Empty
        ELSE IF r1.stdout.parse # "object" THEN Empty
        ELSE IF r1.stdout.field \notin {"list", "missing"} THEN Empty
        ELSE IF FindMain(r1.stdout.items) # "found" THEN Empty
        ELSE IF ~r2.success THEN Empty
        ELSE IF r2.stdout.parse # "object" THEN NonList("raise")
        ELSE ParseHistory(r2.stdout)

get_recent_messages(ls, hist) ==
    LET r1 == run_openclaw(ls)
        r2 == run_openclaw(hist)
    IN  IF ~r1.success THEN Empty
        ELSE IF r1.stdout.parse # "object" THEN Empty  \* caught at line 75
        ELSE IF r1.stdout.field \notin {"list", "missing"}
             THEN Empty                         \* iterating sessions raised
        ELSE IF FindMain(r1.stdout.items) # "found" THEN Empty
        ELSE IF ~r2.success THEN Empty
        ELSE ParseHistory(r2.stdout)

(***************************************************************************)
(* Inputs: texts, messages, and what the CLI can answer                    *)
(***************************************************************************)

\* The longest stream log the model lets grow, and the longest message list
\* the session-history call answers with.
MaxLog == 2

MaxMsgs == 2

RECURSIVE SeqsUpTo(_, _)
SeqsUpTo(S, n) ==
    IF n = 0 THEN {<<>>}
    ELSE LET shorter == SeqsUpTo(S, n - 1)
         IN  shorter \cup {Append(q, x) : q \in shorter, x \in S}

\* "We decided Aa, fixed xxxxxxxxxxxxxxxxxxxx": 41 characters, decision.
part_decided == <<"W","e"," ","d","e","c","i","d","e","d"," ","A","a",",">>
part_fixed == <<"f","i","x","e","d"," ">> \o Rep("x", 20)
T_decided == part_decided \o <<" ">> \o part_fixed

\* A different text of the same digest ("Aa" and "BB" weigh the same).
T_collide ==
    <<"W","e"," ","d","e","c","i","d","e","d"," ","B","B",","," ">> \o part_fixed

\* A text that quotes the marker line of T_decided: 41 characters, discovery.
T_embed == <<"f","o","u","n","d"," ">> \o Marker(get_hash(T_decided)) \o Rep("x", 14)

\* Keywords, but only 9 characters.
T_short == <<"f","i","x","e","d"," ","b","u","g">>

\* A qualifying text that str.encode() rejects.
T_surrogate == <<"s","o","l","v","e","d"," ", Surrogate>> \o Rep("x", 40)

\* Messages of the shapes extract_text_content distinguishes.
m_blocks  ==
    ListMsg(<<TextBlock(part_decided), OtherBlock, NonDictItem,
              TextBlock(part_fixed \o <<"\n">>)>>)
m_collide == StrMsg(<<" ">> \o T_collide \o <<"\n">>)
m_embed   == StrMsg(T_embed)
m_short   == StrMsg(T_short)
m_empty   == ListMsg(<<OtherBlock, TextBlockNoText>>)
m_nonstr  == ListMsg(<<TextBlock(part_decided), TextBlockNonStr>>)
m_surrogate == StrMsg(T_surrogate)

Procs == {1, 2}

VARIABLES
    stream,     \* the entries of stream.log, in file order
    exists,     \* os.path.exists(STREAM_FILE)
    scenario,   \* which callers there are (fixed by the specification)
    procs,      \* per process: its place in main / append_to_stream, its locals
    probe       \* the input and result of a function applied on its own

vars == <<stream, exists, scenario, procs, probe>>

\* The messages the history call may answer with, per scenario:
\*   "mixed"   direct calls and runs of main, one after another;
\*   "runs"    runs of main only, one after another, over every message shape;
\*   "overlap" two runs of main at the same time.
MessagePool ==
    [mixed   |-> {m_blocks, m_embed, m_short},
     runs    |-> {m_blocks, m_collide, m_embed, m_short, m_empty, OtherMsg,
                  NonDictMsg, m_nonstr, m_surrogate},
     overlap |-> {m_blocks, m_short}]

\* The texts append_to_stream and already_captured are called with directly.
CallTexts == {T_decided, T_collide, T_embed, T_short}

CallCategories == {"decision", "outcome"}

Out(parse, field, items) == [parse |-> parse, field |-> field, items |-> items]

Session(key) == [kind |-> "key", key |-> key]
SessionNoKey == [kind |-> "nokey", key |-> NoText]
SessionNullKey == [kind |-> "nullkey", key |-> NoText]
SessionNonDict == [kind |-> "nondict", key |-> NoText]

s_agent_other == <<"a","g","e","n","t",":","o","t","h","e","r">>
s_domain == <<"d","o","m","a","i","n",":","x">>

\* Session lists: none matching, matching by equality, matching by substring,
\* and malformed items before and after the match.
SessionLists ==
    { <<>>,
      <<Session(s_agent_other)>>,
      <<SessionNoKey>>,
      <<SessionNullKey>>,
      <<SessionNonDict>>,
      <<Session(s_agent_other), Session(s_agent_main_main)>>,
      <<Session(s_domain)>>,
      <<Session(s_agent_main_main), SessionNonDict>>,
      <<SessionNonDict, Session(s_agent_main_main)>> }

\* The standard output of `sessions_list`.
ListOutputs ==
    { Out("error", "missing", <<>>),         \* not JSON
      Out("nonobject", "missing", <<>>),     \* JSON, but an array or a number
      Out("object", "missing", <<>>),        \* no "sessions" member
      Out("object", "number", <<>>) }        \* "sessions": 5
    \cup { Out("object", "list", l) : l \in SessionLists }

\* The standard output of `sessions_history`.
HistoryOutputs(lists) ==
    { Out("error", "missing", <<>>),
      Out("nonobject", "missing", <<>>),
      Out("object", "missing", <<>>),        \* no "messages" member
      Out("object", "null", <<>>),           \* "messages": null
      Out("object", "number", <<>>),         \* "messages": 5
      Out("object", "string", <<>>) }        \* "messages": "abc"
    \cup { Out("object", "list", l) : l \in lists }

\* One run of the CLI: how the process ends and what it printed.
Calls(outputs) ==
    { [outcome |-> o, stdout |-> out] : o \in {"exit0", "nonzero"}, out \in outputs }
    \cup { [outcome |-> o, stdout |-> NoOutput] : o \in {"timeout", "spawn_error"} }

\* Every value get_recent_messages can return to main, over every way the
\* two CLI runs can end.
Fetched(pool) ==
    { get_recent_messages(ls, hist) :
        ls \in Calls(ListOutputs),
        hist \in Calls(HistoryOutputs(SeqsUpTo(pool, MaxMsgs))) }

FetchedBy ==
    [mixed   |-> Fetched(MessagePool.mixed),
     runs    |-> Fetched(MessagePool.runs),
     overlap |-> Fetched(MessagePool.overlap)]

(***************************************************************************)
(* already_captured and append_to_stream                                   *)
(***************************************************************************)

\* Mutant: the except branch of the read answers True.
already_captured_failclosed(hash_val, readOk) ==
    IF ~exists THEN FALSE
    ELSE IF readOk THEN In(Marker(hash_val), FileText(stream))
    ELSE TRUE

\* Mutant: the check always answers False.
already_captured_never(hash_val, readOk) == FALSE

\* readOk: whether open() and f.read() succeed.
already_captured(hash_val, readOk) ==
    IF ~exists THEN FALSE
    ELSE IF readOk THEN In(Marker(hash_val), FileText(stream))
    ELSE FALSE                                          \* bare except

\* text.encode() succeeds.
Encodable(text) == \A i \in 1..Len(text) : text[i] # Surrogate

\* The entry append_to_stream writes.
Entry(text, category, hash_val) ==
    [timestamp |-> Len(stream) + 1, category |-> category,
     text |-> text, hash |-> hash_val]

\* Mutant: the file is opened with 'w', so the new entry replaces the log.
Written_truncate(entry) == <<entry>>

\* The log after the `with open(STREAM_FILE, 'a')` block.
Written(entry) == Append(stream, entry)

IdleProc ==
    [pc |-> "idle", mode |-> "none", messages |-> <<>>,
     text |-> NoText, category |-> "outcome", hash_val |-> NoText,
     read_failed |-> FALSE, captured |-> 0, appended |-> 0,
     rets |-> <<>>, base |-> <<>>, held |-> FALSE, fs_failed |-> FALSE,
     exit |-> "none", cause |-> "none", reported |-> -1, result |-> FALSE]

\* main or a direct caller leaves with an exception.
Raise(r, cause) ==
    [r EXCEPT !.pc = "done", !.exit = "raised", !.cause = cause,
              !.rets = IF r.mode = "call" THEN Append(r.rets, "raise") ELSE r.rets,
              !.fs_failed = r.fs_failed \/ cause \in {"mkdir", "append"}]

\* append_to_stream has returned ret to main's loop or to the direct caller.
Return(r, ret) ==
    IF r.mode = "run"
    THEN [r EXCEPT !.pc = "loop", !.messages = Tail(r.messages),
                   !.captured = IF ret THEN r.captured + 1 ELSE r.captured]
    ELSE [r EXCEPT !.pc = "done", !.exit = "clean",
                   !.rets = Append(r.rets, IF ret THEN "true" ELSE "false")]

\* Lines 132-135: the digest and the check.  The process goes on to the write
\* (pc "write") or returns False.
Check(r, text, category, readOk) ==
    IF ~Encodable(text) THEN Raise(r, "encode")
    ELSE LET hash_val == get_hash(text)
             r1 == [r EXCEPT !.text = text, !.category = category,
                             !.hash_val = hash_val,
                             !.read_failed = exists /\ ~readOk,
                             !.fs_failed = r.fs_failed \/ (exists /\ ~readOk)]
         IN  IF already_captured(hash_val, readOk) THEN Return(r1, FALSE)
             ELSE [r1 EXCEPT !.pc = "write"]

\* Processes that may act: one at a time, or both.
Runners == IF scenario = "overlap" THEN Procs ELSE {1}

(***************************************************************************)
(* main                                                                    *)
(***************************************************************************)

\* `not messages`
Falsy(messages) ==
    \/ messages.kind = "null"
    \/ messages.kind = "list" /\ messages.items = <<>>

\* What `for msg in messages` yields: the items of a list; the characters of
\* a string, none of which is a dict.
Elements(messages) ==
    IF messages.kind = "list" THEN messages.items
    ELSE <<NonDictMsg, NonDictMsg, NonDictMsg>>

\* Mutant: the keyword filter is skipped.
Qualifies_nofilter(text) == text # NoText

\* Lines 162-165: the text is not empty and is important.
Qualifies(text) == text # NoText /\ is_important(text)

\* Lines 152-157, on the value get_recent_messages returned.
main_begin(messages) ==
    LET r == [IdleProc EXCEPT !.mode = "run"]
    IN  IF messages.kind = "raise" THEN Raise(r, "fetch")
        ELSE IF Falsy(messages)
             THEN [r EXCEPT !.pc = "done", !.exit = "clean"]  \* "No messages found"
        ELSE IF messages.kind = "number" THEN Raise(r, "shape") \* len(5)
        ELSE [r EXCEPT !.pc = "loop", !.messages = Elements(messages)]

\* One turn of the loop of lines 160-169, up to the call of append_to_stream
\* and its check; line 171 when the messages are exhausted.
main_step(r, readOk) ==
    IF r.messages = <<>>
    THEN [r EXCEPT !.pc = "done", !.exit = "clean", !.reported = r.captured]
    ELSE LET x == extract_text_content(Head(r.messages))
         IN  IF x.status = "raise" THEN Raise(r, "shape")
             ELSE IF ~Qualifies(x.text)
                  THEN [r EXCEPT !.messages = Tail(r.messages)]
             ELSE Check(r, x.text, get_category(x.text), readOk)

(***************************************************************************)
(* Actions                                                                 *)
(***************************************************************************)

\* No function is being applied on its own.
NoProbe ==
    [fn |-> "none", text |-> NoText, important |-> FALSE, category |-> "outcome",
     ls |-> [outcome |-> "exit0", stdout |-> NoOutput],
     hist |-> [outcome |-> "exit0", stdout |-> NoOutput],
     messages |-> Empty]

Init ==
    /\ stream = <<>>
    /\ exists = FALSE
    /\ scenario = "mixed"
    /\ procs = [p \in Procs |-> IdleProc]
    /\ probe = NoProbe

\* main() starts: the messages are fetched.
Start(p) ==
    /\ p \in Runners
    /\ procs[p].pc = "idle"
    /\ \E messages \in FetchedBy[scenario] :
           procs' = [procs EXCEPT ![p] = main_begin(messages)]
    /\ UNCHANGED <<stream, exists, scenario, probe>>

\* main() handles the next message.
Iterate(p) ==
    /\ procs[p].pc = "loop"
    /\ \E readOk \in BOOLEAN :
           procs' = [procs EXCEPT ![p] = main_step(procs[p], readOk)]
    /\ UNCHANGED <<stream, exists, scenario, probe>>

\* Lines 137-147 of append_to_stream: the directory, the append, return True.
Write(p) ==
    /\ procs[p].pc = "write"
    /\ Len(stream) < MaxLog
    /\ \E mkdirOk, appendOk \in BOOLEAN :
           LET r == procs[p]
           IN  IF ~mkdirOk
               THEN /\ procs' = [procs EXCEPT ![p] = Raise(r, "mkdir")]
                    /\ UNCHANGED <<stream, exists>>
               ELSE IF ~appendOk
               THEN /\ procs' = [procs EXCEPT ![p] = Raise(r, "append")]
                    /\ UNCHANGED <<stream, exists>>
               ELSE /\ stream' = Written(Entry(r.text, r.category, r.hash_val))
                    /\ exists' = TRUE
                    /\ procs' = [procs EXCEPT ![p] =
                                   Return([r EXCEPT !.appended = r.appended + 1], TRUE)]
    /\ UNCHANGED <<scenario, probe>>

\* A direct call append_to_stream(text, category).
Call(p, text, category) ==
    /\ p \in Runners
    /\ procs[p].pc = "idle"
    /\ \E readOk \in BOOLEAN :
           LET r == [IdleProc EXCEPT
                        !.mode = "call", !.base = stream,
                        !.held = exists /\ In(Marker(get_hash(text)), FileText(stream))]
           IN  procs' = [procs EXCEPT ![p] = Check(r, text, category, readOk)]
    /\ UNCHANGED <<stream, exists, scenario, probe>>

\* The caller calls append_to_stream a second time, with the same text.
Again(p) ==
    /\ procs[p].pc = "done"
    /\ procs[p].mode = "call"
    /\ Len(procs[p].rets) = 1
    /\ \E category \in CallCategories, readOk \in BOOLEAN :
           procs' = [procs EXCEPT ![p] =
                        Check([procs[p] EXCEPT !.exit = "none", !.cause = "none"],
                              procs[p].text, category, readOk)]
    /\ UNCHANGED <<stream, exists, scenario, probe>>

\* A direct call already_captured(get_hash(text)).
Query(p, text) ==
    /\ p \in Runners
    /\ procs[p].pc = "idle"
    /\ \E readOk \in BOOLEAN :
           procs' = [procs EXCEPT ![p] =
                        [IdleProc EXCEPT
                            !.mode = "query", !.pc = "done", !.exit = "clean",
                            !.text = text, !.hash_val = get_hash(text),
                            !.read_failed = exists /\ ~readOk,
                            !.result = already_captured(get_hash(text), readOk)]]
    /\ UNCHANGED <<stream, exists, scenario, probe>>

\* The process has exited, or the caller has its answer.
Reset(p) ==
    /\ procs[p].pc = "done"
    /\ procs' = [procs EXCEPT ![p] = IdleProc]
    /\ UNCHANGED <<stream, exists, scenario, probe>>

Next ==
    \E p \in Procs :
        \/ Start(p)
        \/ Iterate(p)
        \/ Write(p)
        \/ \E text \in CallTexts, category \in CallCategories : Call(p, text, category)
        \/ Again(p)
        \/ \E text \in CallTexts : Query(p, text)
        \/ Reset(p)

\* Direct calls and runs, one after another.
Spec == Init /\ [][Next]_vars

RunInit ==
    /\ stream = <<>>
    /\ exists = FALSE
    /\ scenario = "runs"
    /\ procs = [p \in Procs |-> IdleProc]
    /\ probe = NoProbe

RunNext ==
    \E p \in Procs :
        \/ Start(p)
        \/ Iterate(p)
        \/ Write(p)
        \/ Reset(p)

\* Runs of main, one after another.
RunSpec == RunInit /\ [][RunNext]_vars

OverlapInit ==
    /\ stream = <<>>
    /\ exists = FALSE
    /\ scenario = "overlap"
    /\ procs = [p \in Procs |-> IdleProc]
    /\ probe = NoProbe

\* Two runs of main with no coordination between them.
OverlapSpec == OverlapInit /\ [][RunNext]_vars

(***************************************************************************)
(* is_important and get_category applied to texts on their own             *)
(***************************************************************************)

\* The most fragments a probed text is made of.
MaxFrags == 2

\* Keywords in lower, upper and mixed case, of different groups; a near miss;
\* and padding that brings a 7-letter keyword to 40 and to 41 characters.
Fragments ==
    { <<"d","e","c","i","d","e","d">>, <<"F","I","X","E","D">>,
      <<"F","o","u","n","d">>, <<"b","u","g">>,
      <<"C","o","m","p","l","e","t","e","d">>, <<"w","o","r","k","i","n","g">>,
      <<"d","e","c","i","d","e">>, Rep("x", 33), Rep("x", 34) }

ProbeTexts == { Concat(q) : q \in SeqsUpTo(Fragments, MaxFrags) }

TextInit ==
    /\ stream = <<>>
    /\ exists = FALSE
    /\ scenario = "mixed"
    /\ procs = [p \in Procs |-> IdleProc]
    /\ \E t \in ProbeTexts : probe = [NoProbe EXCEPT !.fn = "text", !.text = t]

ApplyIsImportant ==
    /\ probe.fn = "text"
    /\ probe' = [probe EXCEPT !.fn = "is_important",
                              !.important = is_important(probe.text)]
    /\ UNCHANGED <<stream, exists, scenario, procs>>

ApplyGetCategory ==
    /\ probe.fn = "text"
    /\ probe' = [probe EXCEPT !.fn = "get_category",
                              !.category = get_category(probe.text)]
    /\ UNCHANGED <<stream, exists, scenario, procs>>

TextNext == ApplyIsImportant \/ ApplyGetCategory

TextSpec == TextInit /\ [][TextNext]_vars

(***************************************************************************)
(* get_recent_messages applied on its own                                  *)
(***************************************************************************)

FetchInit ==
    /\ stream = <<>>
    /\ exists = FALSE
    /\ scenario = "mixed"
    /\ procs = [p \in Procs |-> IdleProc]
    /\ \E ls \in Calls(ListOutputs),
          hist \in Calls(HistoryOutputs(SeqsUpTo(MessagePool.mixed, MaxMsgs))) :
           probe = [NoProbe EXCEPT !.fn = "calls", !.ls = ls, !.hist = hist]

ApplyGetRecentMessages ==
    /\ probe.fn = "calls"
    /\ probe' = [probe EXCEPT !.fn = "get_recent_messages",
                              !.messages = get_recent_messages(probe.ls, probe.hist)]
    /\ UNCHANGED <<stream, exists, scenario, procs>>

FetchNext == ApplyGetRecentMessages

FetchSpec == FetchInit /\ [][FetchNext]_vars

(***************************************************************************)
(* Properties of is_important and get_category (TextSpec)                  *)
(***************************************************************************)

\* kw occurs in text when letter case is ignored.
OccursFolded(kw, text) ==
    \E i \in 0..(Len(text) - Len(kw)) :
        \A k \in 1..Len(kw) : LowerChar[text[i + k]] = kw[k]

AnyOccursFolded(kws, text) ==
    \E i \in 1..Len(kws) : OccursFolded(kws[i], text)

\* C7: is_important(text) is true exactly when the text is longer than 40
\* characters and one of the listed keywords occurs in it, letter case
\* ignored; so no text shorter than 41 characters is important, whatever
\* keywords it holds.
C7_ImportantIffLongAndKeyword ==
    probe.fn = "is_important" =>
        /\ probe.important =
              (Len(probe.text) > 40 /\ AnyOccursFolded(keywords, probe.text))
        /\ (Len(probe.text) < 41 => ~probe.important)

\* A text of exactly 40 characters that holds a keyword was judged.
C7_Witness ==
    /\ probe.fn = "is_important"
    /\ Len(probe.text) = 40
    /\ AnyOccursFolded(keywords, probe.text)
    /\ ~probe.important

\* The groups in the priority order the claim states.
Priority ==
    << [category |-> "decision", kws |-> decision_kws],
       [category |-> "discovery", kws |-> discovery_kws],
       [category |-> "implementation", kws |-> implementation_kws],
       [category |-> "issue", kws |-> issue_kws],
       [category |-> "success", kws |-> success_kws] >>

\* The category of the first group, in priority order, with a keyword in text.
FirstGroup(text) ==
    IF \E g \in 1..Len(Priority) : AnyOccursFolded(Priority[g].kws, text)
    THEN Priority[CHOOSE g \in 1..Len(Priority) :
                    /\ AnyOccursFolded(Priority[g].kws, text)
                    /\ \A h \in 1..(g - 1) :
                          ~AnyOccursFolded(Priority[h].kws, text)].category
    ELSE "outcome"

\* C6: get_category returns the category of the first group, in the order
\* decision > discovery > implementation > issue > success, that has a keyword
\* occurring in the text (letter case ignored), else outcome; a text holding
\* both "decided" and "fixed" is a decision.
C6_FirstGroupInPriorityOrder ==
    probe.fn = "get_category" =>
        /\ probe.category = FirstGroup(probe.text)
        /\ (/\ OccursFolded(<<"d","e","c","i","d","e","d">>, probe.text)
            /\ OccursFolded(<<"f","i","x","e","d">>, probe.text)
            => probe.category = "decision")

\* A text holding "decided" and "FIXED" was classified.
C6_Witness ==
    /\ probe.fn = "get_category"
    /\ OccursFolded(<<"d","e","c","i","d","e","d">>, probe.text)
    /\ OccursFolded(<<"f","i","x","e","d">>, probe.text)
    /\ probe.category = "decision"

(***************************************************************************)
(* Properties of get_recent_messages (FetchSpec)                           *)
(***************************************************************************)

\* The CLI run failed: non-zero exit, timeout, or it could not be spawned.
CallFailed(call) == call.outcome # "exit0"

\* The sessions_list output is not JSON of the expected shape: not JSON, not
\* an object, "sessions" not a list, or an item met by the search that is no
\* object with a string key.
BadListOutput(out) ==
    \/ out.parse # "object"
    \/ out.field \notin {"list", "missing"}
    \/ FindMain(out.items) = "raise"

NoSessionMatches(out) == FindMain(out.items) = "none"

\* The sessions_history output is not JSON, or not a JSON object.
UnparsedHistory(out) == out.parse # "object"

\* The sessions_history output is not JSON of the expected shape: as above, or
\* its "messages" member is not a list.
BadHistoryOutput(out) ==
    UnparsedHistory(out) \/ out.field \notin {"list", "missing"}

\* C5 as stated: every failed call, every output that is not parseable JSON of
\* the expected shape, and a session list without a match, gives the empty
\* sequence, and nothing is raised.
C5_Original ==
    probe.fn = "get_recent_messages" =>
        /\ probe.messages.kind # "raise"
        /\ (\/ CallFailed(probe.ls)
            \/ BadListOutput(probe.ls.stdout)
            \/ NoSessionMatches(probe.ls.stdout)
            \/ CallFailed(probe.hist)
            \/ BadHistoryOutput(probe.hist.stdout)
            => probe.messages = Empty)

\* C5, amended: get_recent_messages never raises; it returns the empty
\* sequence when a call fails, when the session list is not JSON of the
\* expected shape or has no match, and when the history output is not JSON or
\* not a JSON object; a history object whose "messages" member is not a list
\* is returned as it is (null, a number, a string), not as an empty sequence.
C5_FailsSoft ==
    probe.fn = "get_recent_messages" =>
        /\ probe.messages.kind # "raise"
        /\ (\/ CallFailed(probe.ls)
            \/ BadListOutput(probe.ls.stdout)
            \/ NoSessionMatches(probe.ls.stdout)
            \/ CallFailed(probe.hist)
            \/ UnparsedHistory(probe.hist.stdout)
            => probe.messages = Empty)
        /\ (/\ ~CallFailed(probe.ls)
            /\ ~BadListOutput(probe.ls.stdout)
            /\ ~NoSessionMatches(probe.ls.stdout)
            /\ ~CallFailed(probe.hist)
            /\ ~UnparsedHistory(probe.hist.stdout)
            /\ probe.hist.stdout.field \notin {"list", "missing"}
            => probe.messages = NonList(probe.hist.stdout.field))

\* The session list matched, and the history call timed out.
C5_Witness ==
    /\ probe.fn = "get_recent_messages"
    /\ ~CallFailed(probe.ls)
    /\ FindMain(probe.ls.stdout.items) = "found"
    /\ probe.hist.outcome = "timeout"
    /\ probe.messages = Empty

(***************************************************************************)
(* Properties of append_to_stream and already_captured (Spec)              *)
(***************************************************************************)

Last(q) == q[Len(q)]

\* log is base with exactly one entry added, of the given text.
OneAdded(log, base, text) ==
    /\ Len(log) = Len(base) + 1
    /\ SubSeq(log, 1, Len(base)) = base
    /\ Last(log).text = text

\* The caller p has made two calls that both returned, on a log that did not
\* hold the digest before the first.
TwoCallsReturned(p) ==
    /\ procs[p].mode = "call"
    /\ procs[p].pc = "done"
    /\ ~procs[p].held
    /\ Len(procs[p].rets) = 2
    /\ "raise" \notin {procs[p].rets[1], procs[p].rets[2]}

\* C1 as stated: two calls in a row with the same text; the first, on a log
\* not holding the digest, returns true; the second returns false and leaves
\* the log unchanged; one entry is appended in total.
C1_Original ==
    \A p \in Procs :
        TwoCallsReturned(p) =>
            /\ procs[p].rets = <<"true", "false">>
            /\ OneAdded(stream, procs[p].base, procs[p].text)

\* C1, amended: the same, provided the second call's read of the log does not
\* fail.
C1_IdempotentWhenLogReadable ==
    \A p \in Procs :
        /\ (/\ procs[p].mode = "call"
            /\ ~procs[p].held
            /\ Len(procs[p].rets) >= 1
            /\ procs[p].rets[1] # "raise"
            => procs[p].rets[1] = "true")
        /\ (TwoCallsReturned(p) /\ ~procs[p].read_failed =>
               /\ procs[p].rets = <<"true", "false">>
               /\ OneAdded(stream, procs[p].base, procs[p].text))

\* Two calls with the same text have returned true and then false.
C1_Witness ==
    \E p \in Procs :
        /\ TwoCallsReturned(p)
        /\ ~procs[p].read_failed
        /\ procs[p].rets = <<"true", "false">>
        /\ procs[p].base # <<>>
        /\ OneAdded(stream, procs[p].base, procs[p].text)

\* No two entries of the log carry the same hash.
NoTwoSameHash(log) ==
    \A i, j \in 1..Len(log) : i # j => log[i].hash # log[j].hash

\* C2 as stated: with calls and runs one after another, the log never holds
\* two entries with the same hash.
C2_Original == NoTwoSameHash(stream)

\* C2, amended: with calls and runs one after another, an entry whose hash the
\* log already holds is appended only by a call whose read of the log failed;
\* so without a failed read the log never holds two entries with the same hash.
C2_NoTwoSameHashUnlessReadFailed ==
    [][ \A p \in Procs :
          (/\ procs[p].pc = "write"
           /\ procs'[p] # procs[p]
           /\ stream' # stream
           /\ \E i \in 1..Len(stream) : stream[i].hash = procs[p].hash_val)
          => procs[p].read_failed ]_vars

\* A run has appended a second entry to a log without duplicates.
C2_Witness ==
    /\ Len(stream) = 2
    /\ NoTwoSameHash(stream)
    /\ \E p \in Procs : procs[p].mode = "run" /\ procs[p].appended >= 1

\* The caller p asked already_captured for the digest of an entry in the log.
AskedForAppended(p) ==
    /\ procs[p].mode = "query"
    /\ \E i \in 1..Len(stream) :
           stream[i].text = procs[p].text /\ stream[i].hash = procs[p].hash_val

\* C3 as stated: already_captured finds the digest of every entry that was
\* appended, right after the append and after any further appends.
C3_Original ==
    \A p \in Procs : AskedForAppended(p) => procs[p].result

\* C3, amended: the same, provided the read of the log made by
\* already_captured does not fail.
C3_FoundWhenLogReadable ==
    \A p \in Procs :
        AskedForAppended(p) /\ ~procs[p].read_failed => procs[p].result

\* The digest of the first entry was found after a further append.
C3_Witness ==
    \E p \in Procs :
        /\ procs[p].mode = "query"
        /\ Len(stream) = 2
        /\ stream[1].text = procs[p].text
        /\ stream[1].hash = procs[p].hash_val
        /\ stream[2].hash # stream[1].hash
        /\ ~procs[p].read_failed
        /\ procs[p].result

\* C9: when the log exists and its read fails, already_captured answers false
\* for every digest and raises nothing, and append_to_stream goes on to the
\* append: it never returns false, and returns true with the entry appended
\* unless the directory creation or the append itself fails -- also when the
\* log already holds an entry of that digest.
C9_ReadFailureIsNotCaptured ==
    \A p \in Procs :
        /\ (procs[p].mode = "query" /\ procs[p].read_failed =>
               ~procs[p].result /\ procs[p].exit = "clean")
        /\ (/\ procs[p].mode = "call"
            /\ procs[p].read_failed
            /\ procs[p].pc = "done"
            => /\ Last(procs[p].rets) # "false"
               /\ procs[p].cause \in {"none", "mkdir", "append"}
               /\ (procs[p].cause = "none" =>
                      /\ Last(procs[p].rets) = "true"
                      /\ stream # <<>>
                      /\ Last(stream).text = procs[p].text
                      /\ Last(stream).hash = procs[p].hash_val))

\* A call whose read failed appended an entry of a digest the log held.
C9_Witness ==
    \E p \in Procs :
        /\ procs[p].mode = "call"
        /\ procs[p].pc = "done"
        /\ procs[p].read_failed
        /\ procs[p].held
        /\ Last(procs[p].rets) = "true"
        /\ ~NoTwoSameHash(stream)

(***************************************************************************)
(* Properties of main (RunSpec)                                            *)
(***************************************************************************)

\* C4 as stated: whatever the external interactions do and whatever the shape
\* of the fetched messages, no exception leaves main.
C4_Original ==
    \A p \in Procs : procs[p].exit # "raised"

\* C4, amended: a failure of a CLI call, of the JSON parsing or of the log read
\* never leaves main (it degrades to no messages, or to "not yet captured");
\* an exception leaves main only when the log directory cannot be created or
\* the append fails, or when the fetched data is not a list of objects whose
\* text blocks are strings that can be encoded.
C4_OnlyAppendAndShapeErrorsPropagate ==
    \A p \in Procs :
        procs[p].exit = "raised" =>
            procs[p].cause \in {"mkdir", "append", "shape", "encode"}

\* A run in which a read of the log failed has exited cleanly.
C4_Witness ==
    \E p \in Procs :
        /\ procs[p].mode = "run"
        /\ procs[p].pc = "done"
        /\ procs[p].exit = "clean"
        /\ procs[p].fs_failed
        /\ procs[p].reported >= 0

\* What the claim calls isImportant and classify, stated on their own.
Important(text) == Len(text) > 40 /\ AnyOccursFolded(keywords, text)

\* The text of the message the run p is handling, "" if it has none.
CurrentText(p) ==
    LET x == extract_text_content(Head(procs[p].messages))
    IN  IF x.status = "ok" THEN x.text ELSE NoText

\* C10: main appends an entry only for a fetched message whose extracted text
\* is non-empty and important, with category classify(text) and digest
\* hash(text), and counts it; a message with empty or unimportant text causes
\* no write; a run over an empty message list leaves the log unchanged; and
\* the count main reports is the number of entries it appended.
C10_AppendsOnlyQualifyingAndCounts ==
    /\ [][ \A p \in Procs :
             /\ (procs'[p] # procs[p] /\ stream' # stream =>
                    /\ procs[p].pc = "write"
                    /\ procs[p].messages # <<>>
                    /\ CurrentText(p) # NoText
                    /\ Important(CurrentText(p))
                    /\ stream' = Append(stream, Last(stream'))
                    /\ Last(stream').text = CurrentText(p)
                    /\ Last(stream').category = FirstGroup(CurrentText(p))
                    /\ Last(stream').hash = get_hash(CurrentText(p))
                    /\ procs'[p].captured = procs[p].captured + 1)
             /\ (/\ procs'[p] # procs[p]
                 /\ procs[p].pc = "loop"
                 /\ procs[p].messages # <<>>
                 /\ (CurrentText(p) = NoText \/ ~Important(CurrentText(p)))
                 => /\ stream' = stream
                    /\ procs'[p].pc # "write"
                    /\ procs'[p].captured = procs[p].captured) ]_vars
    /\ [](\A p \in Procs :
             /\ procs[p].captured = procs[p].appended
             /\ (procs[p].mode = "run" /\ procs[p].pc = "done" =>
                    /\ (procs[p].reported >= 0 =>
                           procs[p].reported = procs[p].appended)
                    /\ (procs[p].reported < 0 /\ procs[p].exit = "clean" =>
                           procs[p].appended = 0)))

\* A run has appended one entry to a log that held one, and reported 1.
C10_Witness ==
    \E p \in Procs :
        /\ procs[p].mode = "run"
        /\ procs[p].pc = "done"
        /\ procs[p].reported = 1
        /\ procs[p].appended = 1
        /\ Len(stream) = 2

(***************************************************************************)
(* Overlapping runs (OverlapSpec)                                          *)
(***************************************************************************)

\* C8: nothing orders the check and the append of one run against those of
\* another: a run that saw already_captured = false appends its entry and
\* returns true whatever the log holds by then, so two runs handling the same
\* new text can both append it, leaving two entries of one hash.
C8_WriteAppendsWhateverTheLogHolds ==
    [][ \A p \in Procs :
          (procs[p].pc = "write" /\ procs'[p].pc = "loop") =>
              /\ stream' = Append(stream, Last(stream'))
              /\ Last(stream').hash = procs[p].hash_val
              /\ procs'[p].captured = procs[p].captured + 1 ]_vars

\* Both runs, with no failed filesystem operation, have appended the same
\* text: each saw already_captured = false and each counted a capture.
C8_Witness ==
    /\ Len(stream) = 2
    /\ stream[1].hash = stream[2].hash
    /\ \A p \in Procs :
           /\ procs[p].mode = "run"
           /\ ~procs[p].fs_failed
           /\ procs[p].captured = 1
           /\ procs[p].appended = 1

====
